---- MODULE Spec2Model ----
(***************************************************************************)
(* Model of the chess rules engine: Piece::get_raw_moves and               *)
(* Piece::get_valid_moves (pieces/piece.rs), ChessBoard::new, get_piece_at *)
(* and get_possible_moves (board/chess_board.rs) and GameState             *)
(* (game/game_state.rs).                                                   *)
(*                                                                         *)
(* A square is a pair <<row, col>>, stored in the board at row * 8 + col.  *)
(* Option<Piece> is a record; None is the record NoPiece.                  *)
(* A String is the sequence of its characters.                             *)
(* A call that panics (a failing unwrap, an index out of bounds) ends the  *)
(* program: ret = "panic".                                                 *)
(* Option<usize> (AppState::selected_square) is a set of at most one index.*)
(***************************************************************************)
EXTENDS Integers, Sequences, FiniteSets, TLC

VARIABLES board, current_turn, status, last_move,
          white_can_castle_kingside, white_can_castle_queenside,
          black_can_castle_kingside, black_can_castle_queenside,
          move_history, ret, played, selected_square

vars == <<board, current_turn, status, last_move,
          white_can_castle_kingside, white_can_castle_queenside,
          black_can_castle_kingside, black_can_castle_queenside,
          move_history, ret, played, selected_square>>

\* ----------------------------------------------------------------- bounds
\* Number of opening plies in which every (from, to) pair is played.
MaxFullPly == 1
\* Cap on the number of accepted moves of one game.
MaxPly == 15

\* ------------------------------------------------------------- data types
BoardSize == 8

Rows == 0 .. (BoardSize - 1)

Squares == Rows \X Rows

\* The coordinates a caller can pass: those of the board and the first one
\* beyond it.
Coords == 0 .. BoardSize

Attempts == Coords \X Coords

Indices == 0 .. (BoardSize * BoardSize - 1)

NoPiece == [piece_type |-> "None", color |-> "None"]

Piece(t, c) == [piece_type |-> t, color |-> c]

NoMove == <<>>

idx(pos) == pos[1] * 8 + pos[2]

\* The index of pos is one of the Vec of 64 squares: board[idx(pos)] does not
\* panic.  A column beyond 7 with a row below 7 is within bounds and names a
\* square of the next row.
in_bounds(pos) == idx(pos) \in Indices

pos_of(i) == <<i \div 8, i % 8>>

Abs(x) == IF x < 0 THEN -x ELSE x

Sign(x) == IF x = 0 THEN 0 ELSE IF x < 0 THEN -1 ELSE 1

Opposite(c) == IF c = "White" THEN "Black" ELSE "White"

forward_of(c) == IF c = "White" THEN -1 ELSE 1

\* ------------------------------------------------------- ChessBoard::new
back_rank(col) ==
    CASE col \in {0, 7} -> "Rook"
      [] col \in {1, 6} -> "Knight"
      [] col \in {2, 5} -> "Bishop"
      [] col = 3 -> "Queen"
      [] col = 4 -> "King"

InitialBoard ==
    [i \in Indices |->
        LET row == i \div 8
            col == i % 8
        IN  CASE row = 0 -> Piece(back_rank(col), "Black")
              [] row = 1 -> Piece("Pawn", "Black")
              [] row = 6 -> Piece("Pawn", "White")
              [] row = 7 -> Piece(back_rank(col), "White")
              [] OTHER -> NoPiece]

\* ------------------------------------------------- Piece::get_raw_moves
\* Faulty variant of on_start_rank: the two-square candidate is always added.
on_start_rank_any(piece, r) == TRUE

\* The condition of the pawn's two-square candidate.
on_start_rank(piece, r) ==
    (r = 6 /\ piece.color = "White") \/ (r = 1 /\ piece.color = "Black")

\* The candidates are not clipped to the board.
get_raw_moves(piece, from) ==
    LET r == from[1]
        c == from[2]
        forward == forward_of(piece.color)
        Line == (-7 .. 7) \ {0}
    IN  CASE piece.piece_type = "Pawn" ->
                {<<r + forward, c>>, <<r + forward, c - 1>>, <<r + forward, c + 1>>}
                \cup (IF on_start_rank(piece, r)
                      THEN {<<r + forward * 2, c>>} ELSE {})
          [] piece.piece_type = "Knight" ->
                {<<r + d[1], c + d[2]>> :
                    d \in {<<-2, -1>>, <<-2, 1>>, <<-1, -2>>, <<-1, 2>>,
                           <<1, -2>>, <<1, 2>>, <<2, -1>>, <<2, 1>>}}
          [] piece.piece_type = "Bishop" ->
                {<<r + i, c + i>> : i \in Line} \cup {<<r + i, c - i>> : i \in Line}
          [] piece.piece_type = "Rook" ->
                {<<r + i, c>> : i \in Line} \cup {<<r, c + i>> : i \in Line}
          [] piece.piece_type = "Queen" ->
                {<<r + i, c + i>> : i \in Line} \cup {<<r + i, c - i>> : i \in Line}
                \cup {<<r + i, c>> : i \in Line} \cup {<<r, c + i>> : i \in Line}
          [] piece.piece_type = "King" ->
                {<<r + d[1], c + d[2]>> : d \in ((-1 .. 1) \X (-1 .. 1)) \ {<<0, 0>>}}
          [] OTHER -> {}

\* get_raw_moves of every piece on every square, computed once.
raw_moves ==
    [t \in {"King", "Queen", "Rook", "Bishop", "Knight", "Pawn"} |->
        [c \in {"White", "Black"} |->
            [i \in Indices |-> get_raw_moves(Piece(t, c), pos_of(i))]]]

\* raw_moves.contains(&to) for the piece standing on `from`
raw_contains(piece, from, to) ==
    IF from \in Squares
    THEN to \in raw_moves[piece.piece_type][piece.color][idx(from)]
    ELSE to \in get_raw_moves(piece, from)

\* ------------------------------------------------ Piece::get_valid_moves
\* ChessBoard::get_piece_at: None for an index outside the 64 squares
\* (a negative i32 cast to usize is far beyond 64)
get_piece_at(b, i) == IF i \in Indices THEN b[i] ELSE NoPiece

\* ChessBoard::is_path_clear, as the specification of the board describes it:
\* the walk along the line from the square after `from` up to, excluding,
\* `to`; false at the first occupied square, true when from = to.
is_path_clear(from, to, b) ==
    LET dx == to[2] - from[2]
        dy == to[1] - from[1]
        n == IF Abs(dx) > Abs(dy) THEN Abs(dx) ELSE Abs(dy)
    IN  \/ from = to
        \/ \A k \in 1 .. (n - 1) :
              get_piece_at(b, (from[1] + k * Sign(dy)) * 8 + (from[2] + k * Sign(dx))) = NoPiece

\* Faulty variant of on_board: only the upper limits are tested.
on_board_below_eight(to) == to[1] < 8 /\ to[2] < 8

\* The bounds test of the filter of get_valid_moves.
on_board(to) == ~(to[1] < 0 \/ to[1] >= 8 \/ to[2] < 0 \/ to[2] >= 8)

\* The filter closure of get_valid_moves.
keeps_move(piece, from, to, b) ==
    LET to_idx == to[1] * 8 + to[2]
        dx == Abs(to[2] - from[2])
        dy == to[1] - from[1]
        forward == forward_of(piece.color)
        target_piece == get_piece_at(b, to_idx)
    IN  IF ~on_board(to) THEN FALSE
        ELSE IF piece.piece_type = "Pawn" THEN
            IF dx = 0 THEN
                IF Abs(dy) = 1 THEN target_piece = NoPiece
                ELSE IF dy = forward * 2 THEN
                    /\ target_piece = NoPiece
                    /\ get_piece_at(b, (from[1] + forward) * 8 + from[2]) = NoPiece
                    /\ \/ from[1] = 6 /\ piece.color = "White"
                       \/ from[1] = 1 /\ piece.color = "Black"
                ELSE FALSE
            ELSE IF dx = 1 /\ Abs(dy) = 1 THEN
                target_piece # NoPiece /\ target_piece.color # piece.color
            ELSE FALSE
        ELSE IF target_piece # NoPiece /\ target_piece.color = piece.color THEN FALSE
        ELSE IF piece.piece_type = "Knight" THEN TRUE
        ELSE is_path_clear(from, to, b)

get_valid_moves(piece, from, b) ==
    {to \in get_raw_moves(piece, from) : keeps_move(piece, from, to, b)}

\* ------------------------------------------------------------- GameState
\* Faulty variant of path_clear: the walk stops after its first square.
path_clear_first_step(from, to, b) ==
    LET dx == to[2] - from[2]
        dy == to[1] - from[1]
        n == IF Abs(dx) > Abs(dy) THEN Abs(dx) ELSE Abs(dy)
    IN  n > 1 => b[(from[1] + Sign(dy)) * 8 + (from[2] + Sign(dx))] = NoPiece

\* The walk from the square after `from` up to, excluding, `to`
\* (game_state.rs, the while loops of is_valid_move and is_square_attacked).
path_clear(from, to, b) ==
    LET dx == to[2] - from[2]
        dy == to[1] - from[1]
        step_x == Sign(dx)
        step_y == Sign(dy)
        n == IF Abs(dx) > Abs(dy) THEN Abs(dx) ELSE Abs(dy)
    IN  \A k \in 1 .. (n - 1) :
            b[(from[1] + k * step_y) * 8 + (from[2] + k * step_x)] = NoPiece

\* Faulty variant of is_square_attacked: the pawn's own test is left out, so
\* the square straight ahead of a pawn counts as attacked.
is_square_attacked_by_any_raw_move(pos, defending_color, b) ==
    \E i \in Indices :
        LET piece == b[i]
            from == pos_of(i)
        IN  /\ piece # NoPiece
            /\ piece.color # defending_color
            /\ raw_contains(piece, from, pos)
            /\ piece.piece_type \in {"Pawn", "Knight"} \/ path_clear(from, pos, b)

is_square_attacked(pos, defending_color, b) ==
    \E i \in Indices :
        LET piece == b[i]
            from == pos_of(i)
        IN  /\ piece # NoPiece
            /\ piece.color # defending_color
            /\ raw_contains(piece, from, pos)
            /\ CASE piece.piece_type = "Pawn" ->
                      /\ Abs(pos[2] - from[2]) = 1
                      /\ pos[1] - from[1] = forward_of(piece.color)
                 [] piece.piece_type = "Knight" -> TRUE
                 [] OTHER -> path_clear(from, pos, b)

\* king_pos of would_be_in_check: the inner `break` leaves only the column
\* loop, so a later row overwrites an earlier one.
last_row_king(b, color) ==
    LET kings == {i \in Indices : b[i] = Piece("King", color)}
    IN  IF kings = {} THEN {}
        ELSE LET row == CHOOSE r \in Rows :
                            /\ \E i \in kings : i \div 8 = r
                            /\ \A i \in kings : i \div 8 <= r
             IN  {CHOOSE i \in kings :
                     /\ i \div 8 = row
                     /\ \A j \in kings : j \div 8 = row => i <= j}

would_be_in_check(from, to, b) ==
    LET moving_piece == b[idx(from)]
        temp_board == [[b EXCEPT ![idx(from)] = NoPiece] EXCEPT ![idx(to)] = moving_piece]
        king == last_row_king(temp_board, moving_piece.color)
    IN  \E k \in king : is_square_attacked(pos_of(k), moving_piece.color, temp_board)

is_castling_move(from, to, b) ==
    /\ b[idx(from)].piece_type = "King"
    /\ from[1] = to[1]
    /\ Abs(to[2] - from[2]) = 2

is_valid_castling(from, to, b, rights) ==
    LET piece == b[idx(from)]
        row == from[1]
        path_range == IF to[2] = 6 THEN 5 .. 6 ELSE 1 .. 3
        direction == IF to[2] = 6 THEN 1 ELSE -1
    IN  /\ ~(piece.color = "White" /\ to[2] = 6 /\ ~rights.wk)
        /\ ~(piece.color = "White" /\ to[2] = 2 /\ ~rights.wq)
        /\ ~(piece.color = "Black" /\ to[2] = 6 /\ ~rights.bk)
        /\ ~(piece.color = "Black" /\ to[2] = 2 /\ ~rights.bq)
        /\ \A col \in path_range : b[row * 8 + col] = NoPiece
        /\ \A col_offset \in 0 .. 2 :
              ~is_square_attacked(<<row, from[2] + col_offset * direction>>, piece.color, b)

\* The unwrap of the piece on last_move's destination fails on an empty square.
en_passant_panics(from, to, b, lm) ==
    /\ b[idx(from)] # NoPiece
    /\ b[idx(from)].piece_type = "Pawn"
    /\ lm # NoMove
    /\ b[idx(lm[2])] = NoPiece

is_en_passant_move(from, to, b, lm) ==
    LET piece == b[idx(from)]
    IN  /\ piece # NoPiece
        /\ piece.piece_type = "Pawn"
        /\ lm # NoMove
        /\ b[idx(lm[2])].piece_type = "Pawn"
        /\ to[1] = from[1] + forward_of(piece.color)
        /\ Abs(to[2] - from[2]) = 1
        /\ lm[2][1] = from[1]
        /\ lm[2][2] = to[2]


\* Faulty variant of not_to_move: the comparison is inverted.
not_to_move_inverted(piece, turn) == piece.color = turn

\* The piece is not one of the side whose turn it is.
not_to_move(piece, turn) == piece.color # turn

\* "true", "false", or "panic" when the unwrap in is_en_passant_move fails or
\* the board is indexed out of bounds.
is_valid_move(from, to, b, turn, lm, rights) ==
    LET piece == b[idx(from)]
        target == b[idx(to)]
        dx == to[2] - from[2]
        dy == to[1] - from[1]
        self_check == IF ~in_bounds(to) THEN "panic"
                      ELSE IF would_be_in_check(from, to, b) THEN "false" ELSE "true"
    IN  IF ~in_bounds(from) THEN "panic"
        ELSE IF piece = NoPiece THEN "false"
        ELSE IF not_to_move(piece, turn) THEN "false"
        ELSE IF ~raw_contains(piece, from, to) THEN "false"
        ELSE IF piece.piece_type = "King" THEN
            IF is_square_attacked(to, piece.color, b) THEN "false"
            ELSE IF is_castling_move(from, to, b) THEN
                (IF is_valid_castling(from, to, b, rights) THEN "true" ELSE "false")
            ELSE IF ~in_bounds(to) THEN "panic"
            ELSE IF target # NoPiece /\ target.color = piece.color THEN "false"
            ELSE self_check
        ELSE IF piece.piece_type = "Pawn" THEN
            IF Abs(dx) = 0 THEN
                IF ~in_bounds(to) THEN "panic"
                ELSE IF target # NoPiece THEN "false"
                ELSE IF Abs(dy) = 2
                        /\ b[(from[1] + forward_of(piece.color)) * 8 + from[2]] # NoPiece
                     THEN "false"
                ELSE self_check
            ELSE IF Abs(dx) = 1 THEN
                IF en_passant_panics(from, to, b, lm) THEN "panic"
                ELSE IF is_en_passant_move(from, to, b, lm) THEN self_check
                ELSE IF ~in_bounds(to) THEN "panic"
                ELSE IF target = NoPiece THEN "false"
                ELSE IF target.color = piece.color THEN "false"
                ELSE self_check
            ELSE self_check
        ELSE
            IF ~in_bounds(to) THEN "panic"
            ELSE IF target # NoPiece /\ target.color = piece.color THEN "false"
            ELSE IF piece.piece_type # "Knight" /\ ~path_clear(from, to, b) THEN "false"
            ELSE self_check

\* (b'a' + col) as char for the columns 0 .. 8
Files == <<"a", "b", "c", "d", "e", "f", "g", "h", "i">>

Digits == <<"0", "1", "2", "3", "4", "5", "6", "7", "8", "9">>

\* format!("{}", n) of a non-negative integer
RECURSIVE to_string(_)
to_string(n) ==
    IF n < 10 THEN <<Digits[n + 1]>>
    ELSE to_string(n \div 10) \o <<Digits[(n % 10) + 1]>>

\* Faulty variant of get_square_name: the rank is counted from the top row.
get_square_name_from_top(pos) == <<Files[pos[2] + 1]>> \o to_string(pos[1] + 1)

\* (b'a' + col) as char, then 8 - row
get_square_name(pos) == <<Files[pos[2] + 1]>> \o to_string(8 - pos[1])

\* Faulty variant of get_piece_symbol: the knight gets the king's letter.
get_piece_symbol_by_initial(piece) ==
    CASE piece.piece_type = "King" -> <<"K">>
      [] piece.piece_type = "Queen" -> <<"Q">>
      [] piece.piece_type = "Rook" -> <<"R">>
      [] piece.piece_type = "Bishop" -> <<"B">>
      [] piece.piece_type = "Knight" -> <<"K">>
      [] OTHER -> <<>>

get_piece_symbol(piece) ==
    CASE piece.piece_type = "King" -> <<"K">>
      [] piece.piece_type = "Queen" -> <<"Q">>
      [] piece.piece_type = "Rook" -> <<"R">>
      [] piece.piece_type = "Bishop" -> <<"B">>
      [] piece.piece_type = "Knight" -> <<"N">>
      [] OTHER -> <<>>

\* The first (from, to) in row-major order, among the pieces of `turn`, on
\* which is_valid_move does not return false; {} when there is none.
first_legal(b, turn, lm, rights) ==
    LET own == {i \in Indices : b[i] # NoPiece /\ b[i].color = turn}
        hits == {ft \in own \X Indices :
                    is_valid_move(pos_of(ft[1]), pos_of(ft[2]), b, turn, lm, rights) # "false"}
    IN  IF hits = {} THEN {}
        ELSE {CHOOSE ft \in hits :
                 \A o \in hits : ft[1] * 64 + ft[2] <= o[1] * 64 + o[2]}

\* The new status, or "panic" when an unwrap fails on the way.
\* `turn` is self.current_turn at the time of the call.
update_game_status(b, turn, lm, rights) ==
    LET kings == {i \in Indices : b[i] = Piece("King", turn)}
    IN  IF kings = {} THEN "panic"
        ELSE
        LET king_pos == pos_of(CHOOSE i \in kings : \A j \in kings : i <= j)
            in_check == is_square_attacked(king_pos, turn, b)
            first == first_legal(b, turn, lm, rights)
            panics == \E ft \in first :
                         is_valid_move(pos_of(ft[1]), pos_of(ft[2]), b, turn, lm, rights) = "panic"
            has_legal_moves == first # {}
        IN  IF panics THEN "panic"
            ELSE IF ~in_check THEN
                (IF has_legal_moves THEN "InProgress" ELSE "Stalemate")
            ELSE
                (IF has_legal_moves THEN "Check" ELSE "Checkmate")

\* Faulty variant of update_castling_rights: the flags are flipped, not cleared.
update_castling_rights_toggled(piece, from, rights) ==
    CASE piece.piece_type = "King" ->
            IF piece.color = "White"
            THEN [rights EXCEPT !.wk = ~@, !.wq = ~@]
            ELSE [rights EXCEPT !.bk = ~@, !.bq = ~@]
      [] piece.piece_type = "Rook" ->
            CASE from = <<7, 0>> -> [rights EXCEPT !.wq = ~@]
              [] from = <<7, 7>> -> [rights EXCEPT !.wk = ~@]
              [] from = <<0, 0>> -> [rights EXCEPT !.bq = ~@]
              [] from = <<0, 7>> -> [rights EXCEPT !.bk = ~@]
              [] OTHER -> rights
      [] OTHER -> rights

\* The castling-rights update of make_move.
update_castling_rights(piece, from, rights) ==
    CASE piece.piece_type = "King" ->
            IF piece.color = "White"
            THEN [rights EXCEPT !.wk = FALSE, !.wq = FALSE]
            ELSE [rights EXCEPT !.bk = FALSE, !.bq = FALSE]
      [] piece.piece_type = "Rook" ->
            CASE from = <<7, 0>> -> [rights EXCEPT !.wq = FALSE]
              [] from = <<7, 7>> -> [rights EXCEPT !.wk = FALSE]
              [] from = <<0, 0>> -> [rights EXCEPT !.bq = FALSE]
              [] from = <<0, 7>> -> [rights EXCEPT !.bk = FALSE]
              [] OTHER -> rights
      [] OTHER -> rights

\* Faulty variant of record_move: Black's move opens an entry of its own.
record_move_ungrouped(history, color, move_text) ==
    IF color = "White"
    THEN Append(history, to_string(Len(history) \div 2 + 1) \o <<".", " ">> \o move_text)
    ELSE Append(history, move_text)

\* The entry added to, or extended in, move_history.
record_move(history, color, move_text) ==
    IF color = "White"
    THEN Append(history, to_string(Len(history) \div 2 + 1) \o <<".", " ">> \o move_text)
    ELSE IF history # <<>>
         THEN [history EXCEPT ![Len(history)] = @ \o <<" ">> \o move_text]
         ELSE history

\* Faulty variant of next_turn: both branches give Black.
next_turn_stuck(turn) == IF turn = "White" THEN "Black" ELSE "Black"

\* The switch of turns at the end of make_move.
next_turn(turn) == IF turn = "White" THEN "Black" ELSE "White"

\* Faulty variant of applied_move: the squares are stored in the other order.
applied_move_reversed(from, to) == <<to, from>>

\* self.last_move = Some((from, to))
applied_move(from, to) == <<from, to>>

\* Faulty variant of promoted: the pawn stays a pawn.
promoted_kept(piece) == piece

\* The piece that replaces a pawn on its far rank.
promoted(piece) == Piece("Queen", piece.color)

\* Faulty variant of rejected: the turn is switched before the move is refused.
rejected_after_switch(st) ==
    [st EXCEPT !.ret = "false",
               !.current_turn = IF @ = "White" THEN "Black" ELSE "White"]

\* The early return of make_move on a move is_valid_move refuses.
rejected(st) == [st EXCEPT !.ret = "false"]

\* Faulty variant of move_allowed: no move is allowed once the game is over.
move_allowed_while_in_play(from, to, st) ==
    IF st.status \in {"Checkmate", "Stalemate"} THEN "false"
    ELSE is_valid_move(from, to, st.board, st.current_turn, st.last_move, st.rights)

\* self.is_valid_move(from, to, board) as make_move calls it on the state st.
move_allowed(from, to, st) ==
    is_valid_move(from, to, st.board, st.current_turn, st.last_move, st.rights)

\* GameState::make_move on the state st; the result carries the return value.
make_move(from, to, st) ==
    LET b == st.board
        lm == st.last_move
        valid == move_allowed(from, to, st)
        piece == b[idx(from)]
        capture_panics == b[idx(to)] = NoPiece /\ en_passant_panics(from, to, b, lm)
        is_capture == b[idx(to)] # NoPiece \/ is_en_passant_move(from, to, b, lm)
        is_castling == is_castling_move(from, to, b)
        row == from[1]
        rook_from_col == IF to[2] = 6 THEN 7 ELSE 0
        rook_to_col == IF to[2] = 6 THEN 5 ELSE 3
        b1 == IF is_castling
              THEN [[b EXCEPT ![row * 8 + rook_from_col] = NoPiece]
                       EXCEPT ![row * 8 + rook_to_col] = b[row * 8 + rook_from_col]]
              ELSE b
        removal_panics == en_passant_panics(from, to, b1, lm)
        b2 == IF is_en_passant_move(from, to, b1, lm)
              THEN [b1 EXCEPT ![from[1] * 8 + to[2]] = NoPiece]
              ELSE b1
        rights == update_castling_rights(piece, from, st.rights)
        b3 == [[b2 EXCEPT ![idx(from)] = NoPiece] EXCEPT ![idx(to)] = b2[idx(from)]]
        text == IF is_castling
                THEN (IF to[2] = 6 THEN <<"O", "-", "O">> ELSE <<"O", "-", "O", "-", "O">>)
                ELSE get_piece_symbol(piece) \o get_square_name(from)
                     \o (IF is_capture THEN <<"x">> ELSE <<>>) \o get_square_name(to)
        promotes == /\ piece.piece_type = "Pawn"
                    /\ \/ piece.color = "White" /\ to[1] = 0
                       \/ piece.color = "Black" /\ to[1] = 7
        b4 == IF promotes THEN [b3 EXCEPT ![idx(to)] = promoted(piece)] ELSE b3
        promoted_text == IF promotes THEN text \o <<"=", "Q">> ELSE text
        new_status == update_game_status(b4, st.current_turn, lm, rights)
        move_text == CASE new_status = "Check" -> promoted_text \o <<"+">>
                       [] new_status = "Checkmate" -> promoted_text \o <<"#">>
                       [] OTHER -> promoted_text
    IN  IF valid = "false" THEN rejected(st)
        ELSE IF valid = "panic" \/ capture_panics THEN [st EXCEPT !.ret = "panic"]
        ELSE IF removal_panics THEN [st EXCEPT !.ret = "panic", !.board = b1]
        ELSE IF new_status = "panic"
             THEN [st EXCEPT !.ret = "panic", !.board = b4, !.rights = rights]
        ELSE [ret |-> "true",
              board |-> b4,
              current_turn |-> next_turn(st.current_turn),
              status |-> new_status,
              last_move |-> applied_move(from, to),
              rights |-> rights,
              move_history |-> record_move(st.move_history, piece.color, move_text)]


\* ChessBoard::get_possible_moves: the indices of the squares `to` of the
\* board on which is_valid_move returns true; empty for an empty origin.
get_possible_moves(square_idx, b, turn, lm, rights) ==
    IF get_piece_at(b, square_idx) = NoPiece THEN {}
    ELSE {to_row * 8 + to_col : <<to_row, to_col>> \in
             {to \in Rows \X Rows :
                 is_valid_move(pos_of(square_idx), to, b, turn, lm, rights) = "true"}}

\* ------------------------------------------------------------ the driver
\* sq(file, rank): file 1..8 for a..h, rank 1..8; e2 is sq(5, 2) = <<6, 4>>.
sq(file, rank) == <<8 - rank, file - 1>>

mv(f1, r1, f2, r2) == <<sq(f1, r1), sq(f2, r2)>>

\* 1. f3 e5 2. g4 Qh4
FoolsMate == <<mv(6,2,6,3), mv(5,7,5,5), mv(7,2,7,4), mv(4,8,8,4)>>

\* 1. e4 a6 2. e5 d5 3. exd6 (en passant)
EnPassantCentre == <<mv(5,2,5,4), mv(1,7,1,6), mv(5,4,5,5), mv(4,7,4,5), mv(5,5,4,6)>>

\* 1. b4 h6 2. b5 a5 3. bxa6 (en passant)
EnPassantEdge == <<mv(2,2,2,4), mv(8,7,8,6), mv(2,4,2,5), mv(1,7,1,5), mv(2,5,1,6)>>

\* 1. e3 d5 2. a3 d4 3. e4 dxe3 (the e-pawn advanced one square)
OneStepBeside == <<mv(5,2,5,3), mv(4,7,4,5), mv(1,2,1,3), mv(4,5,4,4), mv(5,3,5,4), mv(4,4,5,3)>>

\* 1. b3 g6 2. Bb2 a6 3. Bxh8
RookTaken == <<mv(2,2,2,3), mv(7,7,7,6), mv(3,1,2,2), mv(1,7,1,6), mv(2,2,8,8)>>

\* 1. e4 e5 2. Ke2 Ke7 3. Ke1 Ke8
KingsReturn == <<mv(5,2,5,4), mv(5,7,5,5), mv(5,1,5,2), mv(5,8,5,7), mv(5,2,5,1), mv(5,7,5,8)>>

\* 1. g3 a6 2. Bg2 a5 3. Nf3 a4, then White may try to castle
ReadyToCastle == <<mv(7,2,7,3), mv(1,7,1,6), mv(6,1,7,2), mv(1,6,1,5), mv(7,1,6,3), mv(1,5,1,4)>>

\* 1. c3 e5 2. Qa4 Ke7 3. Kd1 Kf6 4. Ke1 Kg5 5. Kd1 e4 6. Ke1 Kh4 7. f4 exf3
PinnedEnPassant ==
    <<mv(3,2,3,3), mv(5,7,5,5), mv(4,1,1,4), mv(5,8,5,7), mv(5,1,4,1), mv(5,7,6,6),
      mv(4,1,5,1), mv(6,6,7,5), mv(5,1,4,1), mv(5,5,5,4), mv(4,1,5,1), mv(7,5,8,4),
      mv(6,2,6,4), mv(5,4,6,3)>>

\* 1. a4 b5 2. axb5 a6 3. bxa6 h6 4. a7 h5 5. axb8=Q
Promotion ==
    <<mv(1,2,1,4), mv(2,7,2,5), mv(1,4,2,5), mv(1,7,1,6), mv(2,5,1,6), mv(8,7,8,6),
      mv(1,6,1,7), mv(8,6,8,5), mv(1,7,2,8)>>

\* PinnedEnPassant, then 8. Qxh4: the queen takes the king
KingTaken == PinnedEnPassant \o <<mv(1,4,8,4)>>

\* 1. e4 d5 2. Ke2 d4 3. a3 d3 4. Ke3 a6 5. Be2 dxe2, then the d2 pawn to e3,
\* the square of its own king
OwnKingTaken ==
    <<mv(5,2,5,4), mv(4,7,4,5), mv(5,1,5,2), mv(4,5,4,4), mv(1,2,1,3), mv(4,4,4,3),
      mv(5,2,5,3), mv(1,7,1,6), mv(6,1,5,2), mv(4,3,5,2), mv(4,2,5,3)>>

\* 1. f4 e6 2. f5 Be7 3. f6 a6 4. fxe7, then the d7 pawn to e6, the square
\* of a pawn of its own
OwnPawnTaken ==
    <<mv(6,2,6,4), mv(5,7,5,6), mv(6,4,6,5), mv(6,8,5,7), mv(6,5,6,6), mv(1,7,1,6),
      mv(6,6,5,7), mv(4,7,5,6)>>

Games == {FoolsMate, EnPassantCentre, EnPassantEdge, OneStepBeside, RookTaken,
          KingsReturn, ReadyToCastle, PinnedEnPassant, Promotion, KingTaken,
          OwnKingTaken, OwnPawnTaken}

\* The moves that continue a game whose opening is the moves played so far.
ScriptNext(done) ==
    {g[Len(done) + 1] : g \in {h \in Games : Len(h) > Len(done) /\ SubSeq(h, 1, Len(done)) = done}}

State ==
    [ret |-> ret,
     board |-> board,
     current_turn |-> current_turn,
     status |-> status,
     last_move |-> last_move,
     rights |-> [wk |-> white_can_castle_kingside, wq |-> white_can_castle_queenside,
                 bk |-> black_can_castle_kingside, bq |-> black_can_castle_queenside],
     move_history |-> move_history]

\* GameState::new with the board of ChessBoard::new
Init ==
    /\ board = InitialBoard
    /\ current_turn = "White"
    /\ status = "InProgress"
    /\ last_move = NoMove
    /\ white_can_castle_kingside = TRUE
    /\ white_can_castle_queenside = TRUE
    /\ black_can_castle_kingside = TRUE
    /\ black_can_castle_queenside = TRUE
    /\ move_history = <<>>
    /\ ret = "none"
    /\ played = <<>>
    /\ selected_square = {}

\* White's attempts to castle
CastlingTries == {mv(5,1,7,1), mv(5,1,3,1), mv(5,8,7,8), mv(5,8,3,8)}

\* The calls made after the opening: every move of every game, in any position.
Pool == UNION {{g[k] : k \in 1 .. Len(g)} : g \in Games} \cup CastlingTries

Inputs == IF Len(played) < MaxFullPly THEN Attempts \X Attempts ELSE Pool

\* One call of make_move(from, to, board).  Every rejected call is explored;
\* an accepted one is explored in the first MaxFullPly plies and along Games.
Call(from, to) ==
    /\ ret # "panic"
    /\ Len(played) < MaxPly
    /\ \/ Len(played) < MaxFullPly
       \/ <<from, to>> \in ScriptNext(played)
       \/ is_valid_move(from, to, board, current_turn, last_move, State.rights) = "false"
    /\ \E r \in {make_move(from, to, State)} :
           /\ ret' = r.ret
           /\ board' = r.board
           /\ current_turn' = r.current_turn
           /\ status' = r.status
           /\ last_move' = r.last_move
           /\ white_can_castle_kingside' = r.rights.wk
           /\ white_can_castle_queenside' = r.rights.wq
           /\ black_can_castle_kingside' = r.rights.bk
           /\ black_can_castle_queenside' = r.rights.bq
           /\ move_history' = r.move_history
           /\ played' = IF r.ret = "true" THEN Append(played, <<from, to>>) ELSE played

\* ChessBoard::make_move called by itself: the selection is not involved.
MakeMove(from, to) == Call(from, to) /\ UNCHANGED selected_square

Next == \E m \in Inputs : MakeMove(m[1], m[2])

Spec == Init /\ [][Next]_vars

\* ------------------------------------------------------- ChessBoard::event
\* Faulty variant of selectable: any piece can be selected.
selectable_whatever_side(piece, turn) == piece # NoPiece

\* The test of a first click: a piece of the side to move.
selectable(piece, turn) == piece # NoPiece /\ piece.color = turn

\* Faulty variant of selection_after_move: the selection is never cleared.
selection_kept(selected, moved) == {selected}

\* The selection after a move was tried from the selected square.
selection_after_move(selected, moved) == IF moved THEN {} ELSE {selected}

\* A click with nothing selected: a piece of the side to move gets selected.
ClickSelect(square_idx) ==
    /\ ret # "panic"
    /\ selected_square = {}
    /\ selected_square' = IF selectable(board[square_idx], current_turn)
                          THEN {square_idx} ELSE {}
    /\ ret' = "none"
    /\ UNCHANGED <<board, current_turn, status, last_move,
                   white_can_castle_kingside, white_can_castle_queenside,
                   black_can_castle_kingside, black_can_castle_queenside,
                   move_history, played>>

\* A click on the selected square deselects it.
ClickDeselect(square_idx) ==
    /\ ret # "panic"
    /\ selected_square = {square_idx}
    /\ selected_square' = {}
    /\ ret' = "none"
    /\ UNCHANGED <<board, current_turn, status, last_move,
                   white_can_castle_kingside, white_can_castle_queenside,
                   black_can_castle_kingside, black_can_castle_queenside,
                   move_history, played>>

\* A click on another square tries the move from the selected square.
ClickMove(square_idx) ==
    \E selected \in selected_square :
        /\ selected # square_idx
        /\ Call(pos_of(selected), pos_of(square_idx))
        /\ selected_square' = IF ret' = "panic" THEN selected_square
                              ELSE selection_after_move(selected, ret' = "true")

NextUI ==
    \E square_idx \in Indices :
        \/ ClickSelect(square_idx)
        \/ ClickDeselect(square_idx)
        \/ ClickMove(square_idx)

SpecUI == Init /\ [][NextUI]_vars


\* ------------------------------------------------- vocabulary of the claims
Rights == State.rights

king_squares(b, color) == {pos_of(i) : i \in {j \in Indices : b[j] = Piece("King", color)}}

in_check(b, color) == \E k \in king_squares(b, color) : is_square_attacked(k, color, b)

has_legal_move(b, color, lm, rights) ==
    \E from \in Squares, to \in Squares : is_valid_move(from, to, b, color, lm, rights) = "true"

\* The step is a call of make_move that returned true.
Accepted == ret' = "true" /\ Len(played') = Len(played) + 1

ends_with(text, tail) ==
    /\ Len(text) >= Len(tail)
    /\ SubSeq(text, Len(text) - Len(tail) + 1, Len(text)) = tail

contains(text, part) ==
    \E i \in 1 .. (Len(text) - Len(part) + 1) : SubSeq(text, i, i + Len(part) - 1) = part

last_entry(history) == IF history = <<>> THEN <<>> ELSE history[Len(history)]

\* ---------------------------------------------------------------------- C1
\* C1: a call of make_move that returns false leaves the board, current_turn,
\* status, the four castling flags, last_move and move_history as they were.
C1_RejectedMoveChangesNothing ==
    [][ret' = "false" =>
          UNCHANGED <<board, current_turn, status, last_move,
                      white_can_castle_kingside, white_can_castle_queenside,
                      black_can_castle_kingside, black_can_castle_queenside,
                      move_history>>]_vars

\* A call was rejected in the middle of a game, after a king has lost its rights.
C1_Witness ==
    /\ ret = "false"
    /\ Len(played) >= 3
    /\ ~white_can_castle_kingside
    /\ last_move # NoMove

\* ---------------------------------------------------------------------- C2
\* C2: every call that returns true flips current_turn, nothing else changes
\* it, and after n accepted moves White is to move exactly when n is even.
C2_TurnAlternates ==
    /\ [](current_turn = (IF Len(played) % 2 = 0 THEN "White" ELSE "Black"))
    /\ [][/\ Accepted => current_turn' # current_turn
          /\ ~Accepted => current_turn' = current_turn]_vars

\* Black is to move after five accepted moves, the last call being accepted.
C2_Witness == ret = "true" /\ Len(played) = 5 /\ current_turn = "Black"

\* ---------------------------------------------------------------------- C3
\* C3: after an accepted move the king of the side that moved is not attacked
\* (en-passant captures and promotions included).
C3_NoSelfCheck ==
    (ret # "panic" /\ played # <<>>) => ~in_check(board, Opposite(current_turn))

\* ---------------------------------------------------------------------- C4
expected_status(b, color, lm, rights) ==
    IF in_check(b, color)
    THEN (IF has_legal_move(b, color, lm, rights) THEN "Check" ELSE "Checkmate")
    ELSE (IF has_legal_move(b, color, lm, rights) THEN "InProgress" ELSE "Stalemate")

\* C4: after an accepted move, status describes the side whose turn it becomes:
\* Checkmate / Check when its king is attacked and it has no / a legal move,
\* Stalemate / InProgress when its king is not attacked and it has no / a legal move.
C4_StatusOfSideToMove ==
    ret = "true" => status = expected_status(board, current_turn, last_move, Rights)

\* ---------------------------------------------------------------------- C5
\* C5: when an accepted move leaves the side to move in check with no legal
\* reply, status is Checkmate and the move's notation in move_history ends with #.
C5_CheckmateIsRecorded ==
    (/\ ret = "true"
     /\ in_check(board, current_turn)
     /\ ~has_legal_move(board, current_turn, last_move, Rights))
    => /\ status = "Checkmate"
       /\ ends_with(last_entry(move_history), <<"#">>)

\* ---------------------------------------------------------------------- C6
\* C6: White to move, king on e1, rook on h1, f1 and g1 empty, the kingside
\* right held and none of e1, f1, g1 attacked: make_move(e1, g1) is accepted, the
\* king ends on g1, the rook on f1, the entry reads O-O, both White rights are lost.
C6_KingsideCastlingAccepted ==
    (/\ ret # "panic"
     /\ current_turn = "White"
     /\ board[60] = Piece("King", "White")
     /\ board[63] = Piece("Rook", "White")
     /\ board[61] = NoPiece
     /\ board[62] = NoPiece
     /\ white_can_castle_kingside
     /\ \A col \in 4 .. 6 : ~is_square_attacked(<<7, col>>, "White", board))
    => LET r == make_move(<<7, 4>>, <<7, 6>>, State)
       IN  /\ r.ret = "true"
           /\ r.board[62] = Piece("King", "White")
           /\ r.board[61] = Piece("Rook", "White")
           /\ r.board[60] = NoPiece
           /\ r.board[63] = NoPiece
           /\ contains(last_entry(r.move_history), <<"O", "-", "O">>)
           /\ ~r.rights.wk
           /\ ~r.rights.wq

\* ---------------------------------------------------------------------- C7
\* Black's last move was a two-square pawn advance that landed beside the White
\* pawn on `from`, `to` is the square behind that pawn, and the capture leaves
\* White's king unattacked.
white_en_passant_case(from, to) ==
    /\ ret # "panic"
    /\ current_turn = "White"
    /\ last_move # NoMove
    /\ board[idx(last_move[2])] = Piece("Pawn", "Black")
    /\ last_move[1][1] = 1
    /\ last_move[2][1] = 3
    /\ last_move[1][2] = last_move[2][2]
    /\ board[idx(from)] = Piece("Pawn", "White")
    /\ from[1] = 3
    /\ Abs(from[2] - last_move[2][2]) = 1
    /\ to = <<2, last_move[2][2]>>
    /\ ~in_check([board EXCEPT ![idx(from)] = NoPiece,
                               ![idx(last_move[2])] = NoPiece,
                               ![idx(to)] = Piece("Pawn", "White")], "White")

\* C7: in that case make_move(from, to) completes and returns true, the Black
\* pawn is gone from its square, the White pawn stands on `to`, and the recorded
\* notation has x followed by the name of `to`.
C7_EnPassantAccepted ==
    \A from \in Squares, to \in Squares :
        white_en_passant_case(from, to) =>
            LET r == make_move(from, to, State)
            IN  /\ r.ret = "true"
                /\ r.board[from[1] * 8 + to[2]] = NoPiece
                /\ r.board[idx(to)] = Piece("Pawn", "White")
                /\ contains(last_entry(r.move_history), <<"x">> \o get_square_name(to))

\* ---------------------------------------------------------------------- C8
\* C8: a pawn's diagonal move onto an empty square is accepted only if the move
\* before it was a two-rank advance of an opposing pawn that landed on the
\* square of the origin's row and the destination's column.
C8_EnPassantOnlyAfterDoubleAdvance ==
    [][LET from == last_move'[1]
           to == last_move'[2]
       IN  (/\ Accepted
            /\ board[idx(from)].piece_type = "Pawn"
            /\ from[2] # to[2]
            /\ board[idx(to)] = NoPiece)
           => /\ last_move # NoMove
              /\ board[idx(last_move[2])] = Piece("Pawn", Opposite(current_turn))
              /\ last_move[2] = <<from[1], to[2]>>
              /\ last_move[1][2] = last_move[2][2]
              /\ Abs(last_move[2][1] - last_move[1][1]) = 2]_vars

\* ---------------------------------------------------------------------- C9
\* C9: each of the four castling flags, once false, is false in every later state.
C9_CastlingRightsMonotonic ==
    [][/\ ~white_can_castle_kingside => ~white_can_castle_kingside'
       /\ ~white_can_castle_queenside => ~white_can_castle_queenside'
       /\ ~black_can_castle_kingside => ~black_can_castle_kingside'
       /\ ~black_can_castle_queenside => ~black_can_castle_queenside']_vars

\* White's king has left e1 and come back: it stands on e1 without its rights.
C9_Witness ==
    /\ ret = "true"
    /\ board[60] = Piece("King", "White")
    /\ last_move = <<<<6, 4>>, <<7, 4>>>>
    /\ ~white_can_castle_kingside
    /\ ~white_can_castle_queenside

\* --------------------------------------------------------------------- C10
\* C10: a castling flag that is true implies that side's king is on its home
\* square and that wing's own rook is on its home corner.
C10_RightsImplyHomeSquares ==
    /\ white_can_castle_kingside =>
          board[60] = Piece("King", "White") /\ board[63] = Piece("Rook", "White")
    /\ white_can_castle_queenside =>
          board[60] = Piece("King", "White") /\ board[56] = Piece("Rook", "White")
    /\ black_can_castle_kingside =>
          board[4] = Piece("King", "Black") /\ board[7] = Piece("Rook", "Black")
    /\ black_can_castle_queenside =>
          board[4] = Piece("King", "Black") /\ board[0] = Piece("Rook", "Black")

starts_with(text, head) ==
    /\ Len(text) >= Len(head)
    /\ SubSeq(text, 1, Len(head)) = head

\* --------------------------------------------------------------------- C12
\* C12: the k-th entry of move_history starts with "k. ": the entries are
\* numbered 1., 2., 3., ... with no number repeated or skipped.
C12_EntriesNumberedInOrder ==
    \A k \in 1 .. Len(move_history) :
        starts_with(move_history[k], to_string(k) \o <<".", " ">>)

\* --------------------------------------------------------------------- C13
\* C13: an accepted White move adds one entry at the end of move_history and
\* leaves the earlier entries as they were; an accepted Black move adds no
\* entry and extends the last one by a space and its notation; no other call
\* changes the history; after n accepted moves it has ceil(n/2) entries.
C13_HistoryGroupedInPairs ==
    /\ [](Len(move_history) = (Len(played) + 1) \div 2)
    /\ [][/\ Accepted /\ current_turn = "White" =>
                /\ Len(move_history') = Len(move_history) + 1
                /\ SubSeq(move_history', 1, Len(move_history)) = move_history
          /\ Accepted /\ current_turn = "Black" =>
                /\ move_history # <<>>
                /\ Len(move_history') = Len(move_history)
                /\ \A k \in 1 .. (Len(move_history) - 1) : move_history'[k] = move_history[k]
                /\ starts_with(last_entry(move_history'), last_entry(move_history) \o <<" ">>)
                /\ Len(last_entry(move_history')) > Len(last_entry(move_history)) + 1
          /\ ~Accepted => move_history' = move_history]_vars

\* Five moves were accepted, the last one White's: three entries, the first
\* two holding two moves each.
C13_Witness ==
    /\ ret = "true"
    /\ Len(played) = 5
    /\ Len(move_history) = 3
    /\ \E i \in 4 .. Len(move_history[2]) : move_history[2][i] = " "

\* --------------------------------------------------------------------- C14
\* C14: a pawn that an accepted move brings to its far rank (row 0 for White,
\* row 7 for Black) is replaced there by a Queen of its color, and no
\* reachable board has a pawn on row 0 or on row 7.
C14_PromotionToQueen ==
    /\ [](\A c \in Rows : board[c].piece_type # "Pawn" /\ board[56 + c].piece_type # "Pawn")
    /\ [][Accepted =>
            LET from == last_move'[1]
                to == last_move'[2]
                piece == board[idx(from)]
            IN  /\ piece.piece_type = "Pawn"
                /\ to[1] = (IF piece.color = "White" THEN 0 ELSE 7)
                => board'[idx(to)] = Piece("Queen", piece.color)]_vars

\* White's a-pawn has just captured on b8: a White queen stands there and
\* the entry of the move ends with "=Q".
C14_Witness ==
    /\ ret = "true"
    /\ last_move = <<<<1, 0>>, <<0, 1>>>>
    /\ board[1] = Piece("Queen", "White")
    /\ board[8] = NoPiece
    /\ ends_with(last_entry(move_history), <<"=", "Q">>)

\* --------------------------------------------------------------------- C15
\* C15: every board reached through calls of make_move that returned holds
\* exactly one White king and exactly one Black king.
C15_OneKingEach ==
    ret # "panic" =>
        /\ Cardinality(king_squares(board, "White")) = 1
        /\ Cardinality(king_squares(board, "Black")) = 1

\* --------------------------------------------------------------------- C16
\* C16: in every reachable state, for all squares from and to of the board,
\* is_valid_move and make_move return a boolean: no unwrap fails and no
\* index is out of bounds.
C16_NoPanicOnBoardSquares ==
    ret # "panic" =>
        \A from \in Squares, to \in Squares :
            /\ is_valid_move(from, to, board, current_turn, last_move, Rights) # "panic"
            /\ make_move(from, to, State).ret # "panic"

\* --------------------------------------------------------------------- C17
\* C17: a call whose from or to square has a row or a column outside 0..7 is
\* rejected: is_valid_move and make_move return false and make_move leaves
\* the board and the state as they were.
C17_OutOfRangeRejected ==
    ret # "panic" =>
        \A from \in Attempts, to \in Attempts :
            from \notin Squares \/ to \notin Squares =>
                /\ is_valid_move(from, to, board, current_turn, last_move, Rights) = "false"
                /\ make_move(from, to, State) = rejected(State)

\* --------------------------------------------------------------------- C18
\* C18: for every piece in play (every type and color, in the initial
\* position) and every origin square of the board, every square returned by
\* get_raw_moves has its row and column within 0..7.
C18_RawMovesOnBoard ==
    \A i \in Indices :
        board[i] # NoPiece =>
            \A from \in Squares : get_raw_moves(board[i], from) \subseteq Squares

\* --------------------------------------------------------------------- C19
\* C19: in every reachable state and for every origin square, the
\* destinations listed by get_possible_moves, and those listed by
\* get_valid_moves for the piece on the origin, contain neither the origin
\* nor a coordinate outside the board.
C19_DestinationsOnBoardNotOrigin ==
    ret # "panic" =>
        \A i \in Indices :
            /\ i \notin get_possible_moves(i, board, current_turn, last_move, Rights)
            /\ get_possible_moves(i, board, current_turn, last_move, Rights) \subseteq Indices
            /\ board[i] # NoPiece =>
                  /\ pos_of(i) \notin get_valid_moves(board[i], pos_of(i), board)
                  /\ get_valid_moves(board[i], pos_of(i), board) \subseteq Squares

\* In the middle of a game a piece has raw moves off the board, and both
\* enumerations list destinations for it.
C19_Witness ==
    /\ ret = "true"
    /\ Len(played) >= 4
    /\ \E i \in Indices :
          /\ board[i] # NoPiece
          /\ ~(get_raw_moves(board[i], pos_of(i)) \subseteq Squares)
          /\ get_valid_moves(board[i], pos_of(i), board) # {}
          /\ get_possible_moves(i, board, current_turn, last_move, Rights) # {}

\* --------------------------------------------------------------------- C20
\* C20: make_move returns false whenever the from square is empty or holds a
\* piece of the side not to move, and the piece moved by an accepted move is
\* one of the side whose turn it was.
C20_OnlyTheSideToMoveMoves ==
    /\ [](ret # "panic" =>
            \A from \in Squares, to \in Squares :
                board[idx(from)] = NoPiece \/ board[idx(from)].color # current_turn =>
                    make_move(from, to, State).ret = "false")
    /\ [][Accepted =>
            /\ board[idx(last_move'[1])] # NoPiece
            /\ board[idx(last_move'[1])].color = current_turn
            /\ board'[idx(last_move'[2])].color = current_turn]_vars

\* Black has just played the sixth move of a game with a piece of its own.
C20_Witness ==
    /\ ret = "true"
    /\ Len(played) = 6
    /\ current_turn = "White"
    /\ board[idx(last_move[2])].color = "Black"
    /\ board[idx(last_move[1])] = NoPiece

\* --------------------------------------------------------------------- C21
\* C21: last_move is None in the initial state and afterwards the (from, to)
\* pair of the most recent call of make_move that returned true; a call that
\* does not return true leaves it as it was.
C21_LastMoveIsLastAccepted ==
    /\ [](last_move = (IF played = <<>> THEN NoMove ELSE played[Len(played)]))
    /\ [][/\ Accepted => last_move' = played'[Len(played')]
          /\ ~Accepted => last_move' = last_move]_vars

\* A call was rejected after three accepted moves: last_move is still the
\* third of them.
C21_Witness ==
    /\ ret = "false"
    /\ Len(played) = 3
    /\ last_move = played[3]
    /\ board[idx(last_move[2])].color = "White"

\* --------------------------------------------------------------------- C22
\* C22: the destination square of an accepted move is, before the move,
\* empty or occupied by a piece of the other side.
C22_NoCaptureOfOwnPiece ==
    [][Accepted =>
          \/ board[idx(last_move'[2])] = NoPiece
          \/ board[idx(last_move'[2])].color # current_turn]_vars

aligned(from, to) ==
    /\ from # to
    /\ \/ from[1] = to[1]
       \/ from[2] = to[2]
       \/ Abs(to[1] - from[1]) = Abs(to[2] - from[2])

\* The squares strictly between two aligned squares.
between(from, to) ==
    {s \in Squares :
        /\ s # from /\ s # to
        /\ aligned(from, s) /\ aligned(s, to)
        /\ Sign(s[1] - from[1]) = Sign(to[1] - from[1])
        /\ Sign(s[2] - from[2]) = Sign(to[2] - from[2])
        /\ Sign(to[1] - s[1]) = Sign(to[1] - from[1])
        /\ Sign(to[2] - s[2]) = Sign(to[2] - from[2])}

after_move(b, from, to) == [[b EXCEPT ![idx(from)] = NoPiece] EXCEPT ![idx(to)] = b[idx(from)]]

Sliders == {"Bishop", "Rook", "Queen"}

\* --------------------------------------------------------------------- C23
\* C23: an accepted move of a bishop, rook or queen between squares of the
\* board goes along a rank, file or diagonal whose squares strictly between
\* from and to are empty; such a move over an occupied square is rejected; a
\* knight's move to a square that is not its own side's, and that leaves its
\* king safe, is accepted whatever stands between.
C23_SlidersNeedClearPath ==
    /\ [](ret # "panic" =>
            \A from \in Squares, to \in Squares :
                LET piece == board[idx(from)]
                    result == is_valid_move(from, to, board, current_turn, last_move, Rights)
                IN  /\ /\ piece.piece_type \in Sliders
                       /\ result = "true"
                       => /\ aligned(from, to)
                          /\ \A s \in between(from, to) : board[idx(s)] = NoPiece
                    /\ /\ piece.piece_type \in Sliders
                       /\ aligned(from, to)
                       /\ \E s \in between(from, to) : board[idx(s)] # NoPiece
                       => result = "false"
                    /\ /\ piece = Piece("Knight", current_turn)
                       /\ {Abs(to[1] - from[1]), Abs(to[2] - from[2])} = {1, 2}
                       /\ board[idx(to)].color # current_turn
                       /\ ~in_check(after_move(board, from, to), current_turn)
                       => result = "true")
    /\ [][Accepted /\ last_move' \in Squares \X Squares
            /\ board[idx(last_move'[1])].piece_type \in Sliders =>
              /\ aligned(last_move'[1], last_move'[2])
              /\ \A s \in between(last_move'[1], last_move'[2]) : board[idx(s)] = NoPiece]_vars

\* A bishop has just gone from b2 to h8 along the long diagonal.
C23_Witness ==
    /\ ret = "true"
    /\ last_move = <<<<6, 1>>, <<0, 7>>>>
    /\ board[7] = Piece("Bishop", "White")
    /\ \A s \in between(<<6, 1>>, <<0, 7>>) : board[idx(s)] = NoPiece

\* --------------------------------------------------------------------- C24
\* C24: a pawn's move along its file is accepted only onto an empty square,
\* one or two rows forward; the two-row advance only from the pawn's starting
\* rank (row 6 for White, row 1 for Black) and over an empty square.  So a
\* pawn never captures straight ahead.
C24_PawnStraightMoves ==
    /\ [](ret # "panic" =>
            \A from \in Squares, to \in Squares :
                LET piece == board[idx(from)]
                    forward == IF piece.color = "White" THEN -1 ELSE 1
                    dy == to[1] - from[1]
                IN  /\ piece.piece_type = "Pawn"
                    /\ to[2] = from[2]
                    /\ is_valid_move(from, to, board, current_turn, last_move, Rights) = "true"
                    => /\ board[idx(to)] = NoPiece
                       /\ dy \in {forward, 2 * forward}
                       /\ dy = 2 * forward =>
                             /\ from[1] = (IF piece.color = "White" THEN 6 ELSE 1)
                             /\ board[idx(<<from[1] + forward, from[2]>>)] = NoPiece)
    /\ [][/\ Accepted
          /\ last_move' \in Squares \X Squares
          /\ board[idx(last_move'[1])].piece_type = "Pawn"
          /\ last_move'[1][2] = last_move'[2][2]
          => /\ board[idx(last_move'[2])] = NoPiece
             /\ Cardinality({i \in Indices : board'[i] # NoPiece})
                   = Cardinality({i \in Indices : board[i] # NoPiece})]_vars

\* Black's pawn has just advanced two rows from its starting rank, to d5.
C24_Witness ==
    /\ ret = "true"
    /\ last_move = <<<<1, 3>>, <<3, 3>>>>
    /\ board[27] = Piece("Pawn", "Black")
    /\ board[19] = NoPiece
    /\ board[11] = NoPiece

\* The piece on square s attacks pos under the rules of chess.
attacks(b, s, pos) ==
    LET piece == b[idx(s)]
        dr == pos[1] - s[1]
        dc == pos[2] - s[2]
        open == \A m \in between(s, pos) : b[idx(m)] = NoPiece
    IN  CASE piece.piece_type = "Pawn" ->
                 dr = (IF piece.color = "White" THEN -1 ELSE 1) /\ Abs(dc) = 1
          [] piece.piece_type = "Knight" -> {Abs(dr), Abs(dc)} = {1, 2}
          [] piece.piece_type = "King" -> s # pos /\ Abs(dr) <= 1 /\ Abs(dc) <= 1
          [] piece.piece_type = "Bishop" -> s # pos /\ Abs(dr) = Abs(dc) /\ open
          [] piece.piece_type = "Rook" -> s # pos /\ (dr = 0 \/ dc = 0) /\ open
          [] piece.piece_type = "Queen" -> aligned(s, pos) /\ open
          [] OTHER -> FALSE

\* --------------------------------------------------------------------- C25
\* C25: on every reachable board, for every square and either defending
\* color, is_square_attacked is true exactly when a piece of the other color
\* attacks the square: a pawn one step diagonally forward, a knight by its
\* jump, a king from an adjacent square, a bishop, rook or queen along its
\* line with every square strictly in between empty.
C25_AttackedIffChessAttack ==
    \A pos \in Squares, defending_color \in {"White", "Black"} :
        is_square_attacked(pos, defending_color, board)
        <=> \E s \in Squares :
                /\ board[idx(s)] # NoPiece
                /\ board[idx(s)].color # defending_color
                /\ attacks(board, s, pos)

\* After 1. f3 e5 2. g4 Qh4 the square e1 is attacked by the queen along the
\* diagonal, f2 is attacked too, and e4, straight ahead of the pawn on e5 and
\* out of every Black piece's reach, is not.
C25_Witness ==
    /\ ret = "true"
    /\ played = FoolsMate
    /\ is_square_attacked(<<7, 4>>, "White", board)
    /\ is_square_attacked(<<6, 5>>, "White", board)
    /\ ~is_square_attacked(<<4, 4>>, "White", board)

letter_of(piece_type) ==
    CASE piece_type = "King" -> <<"K">>
      [] piece_type = "Queen" -> <<"Q">>
      [] piece_type = "Rook" -> <<"R">>
      [] piece_type = "Bishop" -> <<"B">>
      [] piece_type = "Knight" -> <<"N">>
      [] piece_type = "Pawn" -> <<>>

name_of(pos) == <<Files[pos[2] + 1], Digits[(8 - pos[1]) + 1]>>

\* The notation of the accepted move from -> to made on board b with
\* last move lm, the status after it being new_status.
notation(b, lm, from, to, new_status) ==
    LET piece == b[idx(from)]
        capture == b[idx(to)] # NoPiece \/ is_en_passant_move(from, to, b, lm)
        promotion == /\ piece.piece_type = "Pawn"
                     /\ to[1] = (IF piece.color = "White" THEN 0 ELSE 7)
    IN  letter_of(piece.piece_type) \o name_of(from)
        \o (IF capture THEN <<"x">> ELSE <<>>)
        \o name_of(to)
        \o (IF promotion THEN <<"=", "Q">> ELSE <<>>)
        \o (IF new_status = "Check" THEN <<"+">> ELSE <<>>)
        \o (IF new_status = "Checkmate" THEN <<"#">> ELSE <<>>)

\* --------------------------------------------------------------------- C26
\* C26: the text an accepted move adds to move_history (after "n. " in a new
\* entry for White, after a space at the end of the last entry for Black) is
\* the piece letter (none for a pawn), the origin square, 'x' exactly when
\* the destination was occupied or the move is an en passant capture, the
\* destination square, "=Q" exactly when the move is a promotion, '+'
\* exactly when the new status is Check and '#' exactly when it is Checkmate.
C26_NotationOfAcceptedMove ==
    [][Accepted =>
          LET text == notation(board, last_move, last_move'[1], last_move'[2], status')
              entry == last_entry(move_history')
          IN  IF current_turn = "White"
              THEN \E n \in 1 .. MaxPly :
                       entry = to_string(n) \o <<".", " ">> \o text
              ELSE entry = last_entry(move_history) \o <<" ">> \o text]_vars

\* Black's en passant capture e4xf3 has been recorded with 'x' and '+'.
C26_Witness ==
    /\ ret = "true"
    /\ played = PinnedEnPassant
    /\ status = "Check"
    /\ ends_with(last_entry(move_history), <<" ", "e", "4", "x", "f", "3", "+">>)

Statuses == {"InProgress", "Check", "Checkmate", "Stalemate"}

\* --------------------------------------------------------------------- C27
\* C27: in every reachable state, for every value of status, is_valid_move
\* and make_move give what they give with the status the state has: the same
\* result and, when the move is accepted, the same new state.  The calls
\* compared are all those between squares of the board in the opening, and
\* later those of the games played, in any position where they are refused
\* or continue the game.
C27_AcceptanceIgnoresStatus ==
    ret # "panic" =>
        \A m \in (IF Len(played) < MaxFullPly THEN Squares \X Squares ELSE Pool) :
            \A allowed \in {move_allowed(m[1], m[2], State)} :
                \A s \in Statuses \ {status} :
                    /\ move_allowed(m[1], m[2], [State EXCEPT !.status = s]) = allowed
                    /\ \/ allowed = "false"
                       \/ Len(played) < MaxFullPly
                       \/ m \in ScriptNext(played)
                       => \A here \in {make_move(m[1], m[2], State)} :
                              make_move(m[1], m[2], [State EXCEPT !.status = s])
                              = [here EXCEPT !.status = IF here.ret = "true" THEN @ ELSE s]

\* After Black's en passant capture the status is Check; White's queen move
\* to h4 is accepted, as it would be with the status Checkmate or Stalemate.
C27_Witness ==
    /\ ret = "true"
    /\ played = PinnedEnPassant
    /\ status = "Check"
    /\ make_move(<<4, 0>>, <<4, 7>>, State).ret = "true"
    /\ make_move(<<4, 0>>, <<4, 7>>, [State EXCEPT !.status = "Checkmate"]).ret = "true"
    /\ make_move(<<4, 0>>, <<4, 7>>, [State EXCEPT !.status = "Stalemate"]).ret = "true"

\* --------------------------------------------------------------------- C28
\* C28: with a square selected, a click on another square whose move is
\* accepted clears the selection and puts the new board into the widget; a
\* click whose move is rejected leaves the selection and the widget's board
\* as they were; a click on the selected square itself (the one click that
\* tries no move) clears the selection and changes nothing else.
C28_ClickWithSelection ==
    [][/\ Accepted =>
            /\ \E selected \in selected_square : last_move'[1] = pos_of(selected)
            /\ selected_square' = {}
            /\ board' = make_move(last_move'[1], last_move'[2], State).board
            /\ board'[idx(last_move'[1])] = NoPiece
       /\ ret' = "false" =>
            /\ selected_square # {}
            /\ selected_square' = selected_square
            /\ board' = board
       /\ selected_square # {} /\ ret' = "none" =>
            /\ selected_square' = {}
            /\ UNCHANGED <<board, current_turn, status, last_move, move_history, played>>]_vars

\* The fourth move of a game has just been made by a click: nothing is selected.
C28_Witness ==
    /\ ret = "true"
    /\ Len(played) = 4
    /\ selected_square = {}
    /\ board[idx(last_move[2])].color = "Black"

\* --------------------------------------------------------------------- C29
\* C29: after any sequence of clicks, a selected square holds a piece of the
\* side to move.
C29_SelectionIsOfSideToMove ==
    ret # "panic" =>
        \A selected \in selected_square :
            /\ board[selected] # NoPiece
            /\ board[selected].color = current_turn

\* Black's piece is still selected after a click on a square it cannot go to.
C29_Witness ==
    /\ ret = "false"
    /\ Len(played) = 3
    /\ current_turn = "Black"
    /\ selected_square # {}

piece_count(b) == Cardinality({i \in Indices : b[i] # NoPiece})

\* --------------------------------------------------------------------- C30
\* C30: an accepted move leaves the number of pieces as it was or lowers it
\* by one, by one exactly when an enemy piece stood on the destination or the
\* move is an en passant capture; the origin is left empty and every square
\* other than the origin, the destination and the square of the pawn taken
\* en passant is unchanged.
C30_AtMostOnePieceRemoved ==
    [][Accepted /\ last_move' \in Squares \X Squares =>
          LET from == last_move'[1]
              to == last_move'[2]
              en_passant == is_en_passant_move(from, to, board, last_move)
              captures == \/ board[idx(to)] # NoPiece /\ board[idx(to)].color # current_turn
                          \/ en_passant
          IN  /\ piece_count(board') = piece_count(board) - (IF captures THEN 1 ELSE 0)
              /\ board'[idx(from)] = NoPiece
              /\ \A i \in Indices :
                    \/ i \in {idx(from), idx(to)}
                    \/ en_passant /\ i = from[1] * 8 + to[2]
                    \/ board'[i] = board[i]]_vars

====
